---- MODULE Spec2Model ----
(***************************************************************************)
(* A model of Python/process_copernicus.py: the CopernicusProcessor class  *)
(* (variable lookup, cell size, max / min / annual range, current speed,   *)
(* GeoTIFF export) and the folder-walking orchestrator                     *)
(* batch_process_netcdfs.                                                  *)
(*                                                                         *)
(* Representation.  A DataArray is a record                                *)
(*   [dims, xs, crs, years, data]                                          *)
(* dims  : the set of dimension names;                                     *)
(* xs    : the coordinate values of the x-like dimension, in 1/10000 of a  *)
(*         degree (<< >> when the array has no x-like dimension);          *)
(* crs   : the CRS rioxarray reads from the array (NoCRS, BadCRS, or       *)
(*         <<"EPSG", n>>);                                                 *)
(* years : the calendar year of every sample of the time coordinate        *)
(*         (<< >> when the array has no time dimension);                   *)
(* data  : one row per time sample (one row when there is no time          *)
(*         dimension), one value per cell of a row.  Values are finite     *)
(*         integers: missing (NaN) cells are not modelled.                 *)
(* A Dataset is a function from variable names to DataArrays.  A call that *)
(* may raise returns [ok |-> TRUE, val |-> v] or [ok |-> FALSE, err |-> e].*)
(***************************************************************************)
EXTENDS Integers, Sequences, FiniteSets, TLC

(***************************************************************************)
(* Bounds of the model.                                                    *)
(***************************************************************************)
\* the most .nc files one input folder holds
MaxFiles == 3
\* the most folders below the input root
MaxFolders == 2
\* the most time samples of an array given to the reducers
MaxSamples == 3
\* the largest cell value of an array given to the reducers
MaxVal == 2

Ok(v) == [ok |-> TRUE, val |-> v]
Raise(e) == [ok |-> FALSE, err |-> e]

NoCRS == << >>
BadCRS == <<"unreadable">>
EPSG(n) == <<"EPSG", n>>
NoDim == "<none>"

\* var_map, the module-level name table; keys are variable keys
DefaultVarMap ==
  [k \in {<<"thetao">>, <<"so">>, <<"o2">>, <<"V">>} |->
     CASE k = <<"thetao">> -> <<"sea_temperature">>
       [] k = <<"so">> -> <<"salinity">>
       [] k = <<"o2">> -> <<"oxygen">>
       [] OTHER -> <<"current_speed">>]
\* var_map=None becomes {} in __init__
EmptyVarMap == [k \in {} |-> << >>]

\* CopernicusProcessor(dataset, epsg, var_map)
Processor(dataset, epsg, vm) == [dataset |-> dataset, epsg |-> epsg, var_map |-> vm]

(***************************************************************************)
(* Arithmetic helpers.                                                     *)
(***************************************************************************)
Abs(n) == IF n < 0 THEN 0 - n ELSE n
MaxOf(S) == CHOOSE m \in S : \A y \in S : y <= m
MinOf(S) == CHOOSE m \in S : \A y \in S : m <= y
\* the square root, exact on the perfect squares the model's inputs produce
Sqrt(n) == CHOOSE r \in 0..n : r * r <= n /\ n < (r + 1) * (r + 1)

RECURSIVE SumSeq(_)
SumSeq(s) == IF s = << >> THEN 0 ELSE Head(s) + SumSeq(Tail(s))

\* np.unique: the distinct values, ascending
RECURSIVE SortedSeq(_)
SortedSeq(S) == IF S = {} THEN << >>
                ELSE LET m == MinOf(S) IN <<m>> \o SortedSeq(S \ {m})
Range(s) == {s[i] : i \in DOMAIN s}

\* mutant of FirstIn: the last candidate among dims wins, not the first
RECURSIVE LastIn(_, _)
LastIn(cands, dims) ==
  IF cands = << >> THEN NoDim
  ELSE IF cands[Len(cands)] \in dims THEN cands[Len(cands)]
  ELSE LastIn(SubSeq(cands, 1, Len(cands) - 1), dims)

\* next((n for n in candidates if n in dims), None)
RECURSIVE FirstIn(_, _)
FirstIn(cands, dims) ==
  IF cands = << >> THEN NoDim
  ELSE IF Head(cands) \in dims THEN Head(cands)
  ELSE FirstIn(Tail(cands), dims)

XCandidates == <<"x", "lon", "longitude">>
YCandidates == <<"y", "lat", "latitude">>

NCells(da) == Len(da.data[1])

(***************************************************************************)
(* CopernicusProcessor methods.                                            *)
(***************************************************************************)
\* get_variable_data
GetVariableData(dataset, variable_name) ==
  IF variable_name \in DOMAIN dataset
  THEN Ok(dataset[variable_name])
  ELSE Raise("ValueError: variable not found")

\* the value max (or min) picks among the samples of one cell
Pick(how, S) == IF how = "max" THEN MaxOf(S) ELSE MinOf(S)

\* data.max(dim='time') / data.min(dim='time') on one array
ReduceTime(da, how) ==
  IF "time" \notin da.dims THEN Raise("ValueError: no time dimension")
  ELSE Ok([dims |-> da.dims \ {"time"}, xs |-> da.xs, crs |-> da.crs,
           years |-> << >>,
           data |-> << [c \in 1..NCells(da) |->
                          Pick(how, {da.data[t][c] : t \in DOMAIN da.data})] >>])

\* get_max
GetMax(dataset, variable_name) ==
  LET r == GetVariableData(dataset, variable_name)
  IN IF ~r.ok THEN r ELSE ReduceTime(r.val, "max")

\* get_min
GetMin(dataset, variable_name) ==
  LET r == GetVariableData(dataset, variable_name)
  IN IF ~r.ok THEN r ELSE ReduceTime(r.val, "min")

\* a mean as the exact fraction sum / count
Mean(s) == [num |-> SumSeq(s), den |-> Len(s)]

\* mutant of YearRange: the year's range taken over the samples of all years
YearRangeAllSamples(da, year, c) ==
  LET vals == {da.data[t][c] : t \in DOMAIN da.data}
  IN Abs(MaxOf(vals) - MinOf(vals))

\* year_data = data.sel(time=data.time.dt.year == year);
\* np.abs(year_data.max(dim='time') - year_data.min(dim='time')), one cell
YearRange(da, year, c) ==
  LET vals == {da.data[t][c] : t \in {u \in DOMAIN da.data : da.years[u] = year}}
  IN Abs(MaxOf(vals) - MinOf(vals))

\* the loop over unique_years, then concat and mean over 'year', one cell
MeanAnnualRange(da, c) ==
  LET unique_years == SortedSeq(Range(da.years))
      annual_ranges == [i \in DOMAIN unique_years |-> YearRange(da, unique_years[i], c)]
  IN Mean(annual_ranges)

\* get_range
GetRange(dataset, variable_name) ==
  LET r == GetVariableData(dataset, variable_name)
  IN IF ~r.ok THEN r
     ELSE IF "time" \notin r.val.dims \/ r.val.years = << >>
     THEN Raise("ValueError: no time samples")
     ELSE Ok([dims |-> r.val.dims \ {"time"}, xs |-> r.val.xs, crs |-> r.val.crs,
              years |-> << >>,
              data |-> << [c \in 1..NCells(r.val) |-> MeanAnnualRange(r.val, c)] >>])

\* f"{resolution:.3f}".replace('.', '_'): a resolution in 1/10000 degree,
\* rounded to three decimals, as <<integer part, three decimals>>
FormatResolution(resolution) ==
  LET thousandths == (resolution + 5) \div 10
  IN <<thousandths \div 1000, thousandths % 1000>>

\* mutant of GetCellSize: an x axis of fewer than two coordinates gets the
\* label of a zero resolution
GetCellSizeOfAny(da) ==
  LET x_dim == FirstIn(XCandidates, da.dims)
  IN IF x_dim = NoDim THEN Raise("ValueError: no x dimension")
     ELSE IF Len(da.xs) < 2 THEN Ok(FormatResolution(0))
     ELSE Ok(FormatResolution(Abs(da.xs[2] - da.xs[1])))

\* get_cell_size
GetCellSize(da) ==
  LET x_dim == FirstIn(XCandidates, da.dims)
  IN IF x_dim = NoDim THEN Raise("ValueError: no x dimension")
     ELSE IF Len(da.xs) < 2 THEN Raise("ValueError: fewer than 2 coordinates")
     ELSE Ok(FormatResolution(Abs(da.xs[2] - da.xs[1])))

\* the EPSG codes pyproj resolves; write_crs raises on any other
KnownEPSG == {4326, 3857, 3035}

\* self.var_map.get(variable_key, variable_key)
Mapped(vm, variable_key) ==
  IF variable_key \in DOMAIN vm THEN vm[variable_key] ELSE variable_key

\* has_crs: da.rio.crs is not None, False when reading it raises
HasCRS(da) == da.crs # NoCRS /\ da.crs # BadCRS

\* mutant of StampedCRS: the configured EPSG overrides the array's CRS
StampedCRSOverride(da, epsg) == EPSG(epsg)

\* the CRS of the array handed to to_raster
StampedCRS(da, epsg) == IF HasCRS(da) THEN da.crs ELSE EPSG(epsg)

\* the detection of the spatial dimensions: <<x_dim, y_dim>>, or the
\* ValueError when either candidate list has no match
ResolveSpatialDims(dims) ==
  LET x_dim == FirstIn(XCandidates, dims)
      y_dim == FirstIn(YCandidates, dims)
  IN IF x_dim = NoDim \/ y_dim = NoDim
     THEN Raise("ValueError: no spatial dimensions")
     ELSE Ok(<<x_dim, y_dim>>)

\* dataarray_to_geotiff: the file written (with the dimensions renamed to
\* x and y), or the exception raised
DataarrayToGeotiff(proc, da, variable_key, out_dir) ==
  LET mapped == Mapped(proc.var_map, variable_key)
      timeless == IF "time" \in da.dims THEN da.dims \ {"time"} ELSE da.dims
      spatial == ResolveSpatialDims(timeless)
  IN IF "time" \in da.dims /\ Len(da.data) # 1
     THEN Raise("ValueError: cannot squeeze time")
     ELSE IF ~spatial.ok THEN spatial
     ELSE IF ~HasCRS(da) /\ proc.epsg \notin KnownEPSG THEN Raise("CRSError")
     ELSE Ok([dir |-> out_dir, name |-> mapped,
              crs |-> StampedCRS(da, proc.epsg),
              x_dim |-> spatial.val[1], y_dim |-> spatial.val[2],
              dims |-> (timeless \ {spatial.val[1], spatial.val[2]}) \cup {"x", "y"}])

\* xarray broadcasting: the value of a at time index t, cell c
At(a, t, c) ==
  LET row == a.data[IF Len(a.data) = 1 THEN 1 ELSE t]
  IN row[IF Len(row) = 1 THEN 1 ELSE c]

\* xr.ufuncs.sqrt(self_u**2 + self_v**2): the arrays are broadcast against
\* each other, whatever their dimensions
Magnitude(u, v) ==
  LET T == IF Len(u.data) >= Len(v.data) THEN Len(u.data) ELSE Len(v.data)
      N == IF NCells(u) >= NCells(v) THEN NCells(u) ELSE NCells(v)
  IN [dims |-> u.dims \cup v.dims,
      xs |-> IF u.xs # << >> THEN u.xs ELSE v.xs,
      crs |-> IF u.crs # NoCRS THEN u.crs ELSE v.crs,
      years |-> IF u.years # << >> THEN u.years ELSE v.years,
      data |-> [t \in 1..T |-> [c \in 1..N |->
                  Sqrt(At(u, t, c) * At(u, t, c) + At(v, t, c) * At(v, t, c))]]]

\* mutant of SetVariable: the dataset is left with the new variable alone
SetVariableAlone(dataset, name, da) == [k \in {name} |-> da]

\* self.dataset['V'] = speed
SetVariable(dataset, name, da) ==
  [k \in DOMAIN dataset \cup {name} |-> IF k = name THEN da ELSE dataset[k]]

\* speed_from_components: the updated dataset, or the exception raised
SpeedFromComponents(dataset, u_component, v_component) ==
  LET self_u == GetVariableData(dataset, u_component)
      self_v == GetVariableData(dataset, v_component)
  IN IF ~self_u.ok THEN self_u
     ELSE IF ~self_v.ok THEN self_v
     ELSE Ok(SetVariable(dataset, "V", Magnitude(self_u.val, self_v.val)))

(***************************************************************************)
(* The inputs of batch_process_netcdfs.                                    *)
(***************************************************************************)
\* folders are paths below input_root; Root is input_root itself
Root == << >>
\* the folders a tree may hold, in the top-down order os.walk yields them
AllFolders == << <<"a">>, <<"a", "b">> , <<"c">> >>
Prefixes(p) == {SubSeq(p, 1, k) : k \in 0..Len(p)}
\* the input hierarchies: every folder's parent is in the tree too
Trees == {T \in SUBSET Range(AllFolders) :
            /\ Cardinality(T) <= MaxFolders
            /\ \A p \in T : Prefixes(p) \subseteq T \cup {Root}}
\* os.walk(input_root): the root first, then every folder below it
WalkOrder(T) == <<Root>> \o SelectSeq(AllFolders, LAMBDA p : p \in T)

\* the files of one folder: n dataset files and possibly another file
File(stem, ext) == [stem |-> stem, ext |-> ext]
Listings == {[i \in 1..n |-> File(i, "nc")] : n \in 0..MaxFiles}
              \cup {<<File(0, "txt")>> \o [i \in 1..n |-> File(i, "nc")] : n \in 0..MaxFiles}
\* f.endswith('.nc')
IsNetcdf(f) == f.ext = "nc"
NcFiles(files) == SelectSeq(files, IsNetcdf)

\* the grids of the input datasets; the files of one folder share one
Grids ==
  { [dims |-> {"time", "lat", "lon"}, xs |-> <<0, 833>>, crs |-> NoCRS],
    [dims |-> {"time", "y", "x"}, xs |-> <<0, 2500>>, crs |-> EPSG(3857)],
    [dims |-> {"time", "lat", "lon"}, xs |-> <<0>>, crs |-> NoCRS],
    [dims |-> {"time", "depth", "lon"}, xs |-> <<0, 833>>, crs |-> NoCRS],
    [dims |-> {"time", "depth"}, xs |-> << >>, crs |-> NoCRS] }

\* the variables one dataset file may hold
VarSets == { {"thetao", "so"}, {"uo", "vo"} }

\* the samples of the input files: two calendar years
FileYears == <<2000, 2000, 2001>>
VarData(v, t, c) ==
  CASE v = "thetao" -> t + c
    [] v = "so" -> 4 - t
    [] v = "uo" -> 3 * ((t + c) % 2)
    [] OTHER -> 4 * (t % 2)

\* the dataset xr.open_dataset returns for a file holding `vs` on `grid`
FileDataset(grid, vs) ==
  [v \in vs |->
     [dims |-> grid.dims, xs |-> grid.xs, crs |-> grid.crs, years |-> FileYears,
      data |-> [t \in DOMAIN FileYears |->
                  [c \in 1..(IF grid.xs = << >> THEN 1 ELSE Len(grid.xs)) |->
                     VarData(v, t, c)]]]]

\* mutant of Merge: only the first dataset is kept
MergeFirstOnly(dss) == dss[1]

\* xr.merge(datasets): the union of the variables
RECURSIVE Merge(_)
Merge(dss) ==
  IF Len(dss) = 1 THEN dss[1]
  ELSE LET a == dss[1]
           b == Merge(Tail(dss))
       IN [k \in DOMAIN a \cup DOMAIN b |-> IF k \in DOMAIN a THEN a[k] ELSE b[k]]

\* processing_config values: a list of operations, or a dict
OpList(ops) == [isdict |-> FALSE, items |-> ops]
Dict(items) == [isdict |-> TRUE, items |-> items]
Entry(key, value) == [key |-> key, value |-> value]
Components == [k \in {"components"} |-> <<"uo", "vo">>]
Operations(ops) == [k \in {"operations"} |-> ops]
Both(ops) == [k \in {"components", "operations"} |->
                IF k = "components" THEN <<"uo", "vo">> ELSE ops]

\* the processing_config values of the model, in the dict's order
Plans ==
  { << Entry("thetao", OpList(<<"max", "range">>)), Entry("so", OpList(<<"min">>)) >>,
    << Entry("V", Dict(Both(<<"max">>))), Entry("thetao", OpList(<<"min">>)) >>,
    << Entry("thetao", OpList(<<"mean", "max">>)), Entry("o2", OpList(<<"min">>)) >>,
    << Entry("V", Dict(Components)), Entry("so", OpList(<<"max">>)) >>,
    << Entry("V", Dict(Operations(<<"min">>))), Entry("so", OpList(<<"max">>)) >>,
    << Entry("current", Dict(Both(<<"max">>))), Entry("thetao", OpList(<<"max">>)) >> }

\* the epsg the orchestrator is run with: that of the module's own call
EPSGs == {4326}

(***************************************************************************)
(* State.                                                                  *)
(***************************************************************************)
VARIABLES
  pc,           \* where batch_process_netcdfs (or the method caller) stands
  tree,         \* the folders below input_root
  config,       \* processing_config
  epsg,         \* epsg
  var_map,      \* var_map
  walk,         \* the folders os.walk has still to yield
  folder,       \* folder_path, relative to input_root
  nc_files,     \* nc_files
  fi,           \* the index in nc_files of the file to load next
  grid,         \* the grid of the files of folder_path
  datasets,     \* datasets: the datasets loaded from folder_path
  open,         \* the number of dataset handles open
  processor,    \* processor (its dataset is ds), NoProcessor before the first
  pi,           \* the index of the processing_config entry at hand
  var_name,     \* var_name
  ops,          \* ops
  oi,           \* the index in ops of the operation at hand
  outdirs,      \* the folders that exist under output_root
  outfiles,     \* the rasters written: [dir, name, crs, dims]
  log,          \* the line printed last: <<message, folder, subject>>
  entered,      \* the folders whose batch was started
  ret           \* the last method call and what it returned

vars == <<pc, tree, config, epsg, var_map, walk, folder, nc_files, fi, grid, datasets,
          open, processor, pi, var_name, ops, oi, outdirs, outfiles, log, entered, ret>>

inputs == <<tree, config, epsg, var_map>>
batch == <<folder, nc_files, fi, grid, datasets, processor, pi, var_name, ops, oi>>

NoProcessor == [dataset |-> << >>, epsg |-> 0, var_map |-> EmptyVarMap]
NoGrid == [dims |-> {}, xs |-> << >>, crs |-> NoCRS]
NoCall == [fn |-> "none"]

\* the locals of the loop body, before a folder is entered
NoBatch ==
  /\ folder = Root
  /\ nc_files = << >>
  /\ fi = 0
  /\ grid = NoGrid
  /\ datasets = << >>
  /\ processor = NoProcessor
  /\ pi = 0
  /\ var_name = ""
  /\ ops = << >>
  /\ oi = 0

Init ==
  /\ pc = "start"
  /\ tree \in Trees
  /\ config \in Plans
  /\ epsg \in EPSGs
  /\ var_map = DefaultVarMap
  /\ walk = << >>
  /\ NoBatch
  /\ open = 0
  /\ outdirs = {}
  /\ outfiles = {}
  /\ log = << >>
  /\ entered = {}
  /\ ret = NoCall

\* the loop body's locals are dead once `continue` or the end of the body is
\* reached: the next iteration assigns each before it reads it
NextFolder ==
  /\ pc' = "walk"
  /\ folder' = Root
  /\ nc_files' = << >>
  /\ fi' = 0
  /\ grid' = NoGrid
  /\ datasets' = << >>
  /\ processor' = NoProcessor
  /\ pi' = 0
  /\ var_name' = ""
  /\ ops' = << >>
  /\ oi' = 0

LogLine(message, subject) == log' = <<message, folder, subject>>

\* os.makedirs(output_root, exist_ok=True); for ... in os.walk(input_root)
Start ==
  /\ pc = "start"
  /\ outdirs' = outdirs \cup {Root}
  /\ walk' = WalkOrder(tree)
  /\ pc' = "walk"
  /\ UNCHANGED <<inputs, batch, open, outfiles, log, entered, ret>>

\* os.walk is exhausted: the function returns
WalkEnd ==
  /\ pc = "walk"
  /\ walk = << >>
  /\ pc' = "done"
  /\ UNCHANGED <<inputs, walk, batch, open, outdirs, outfiles, log, entered, ret>>

\* if folder_path == input_root: continue
SkipRoot ==
  /\ pc = "walk"
  /\ walk # << >>
  /\ Head(walk) = Root
  /\ walk' = Tail(walk)
  /\ UNCHANGED <<pc, inputs, batch, open, outdirs, outfiles, log, entered, ret>>

\* os.makedirs(output_folder, exist_ok=True)
MakeDirs(dirs, p) == dirs \cup Prefixes(p)

\* a folder without .nc files: its output folder is made, then `continue`
NoNetcdf ==
  /\ pc = "walk"
  /\ walk # << >>
  /\ Head(walk) # Root
  /\ \E files \in Listings :
       /\ NcFiles(files) = << >>
       /\ outdirs' = MakeDirs(outdirs, Head(walk))
       /\ log' = <<"No NetCDF files found", Head(walk), << >> >>
  /\ entered' = entered \cup {Head(walk)}
  /\ walk' = Tail(walk)
  /\ UNCHANGED <<pc, inputs, batch, open, outfiles, ret>>

\* a folder with .nc files: its output folder is made and loading starts
EnterFolder ==
  /\ pc = "walk"
  /\ walk # << >>
  /\ Head(walk) # Root
  /\ \E files \in Listings :
       /\ NcFiles(files) # << >>
       /\ nc_files' = NcFiles(files)
  /\ outdirs' = MakeDirs(outdirs, Head(walk))
  /\ entered' = entered \cup {Head(walk)}
  /\ folder' = Head(walk)
  /\ walk' = Tail(walk)
  /\ datasets' = << >>
  /\ fi' = 1
  /\ pc' = "load"
  /\ UNCHANGED <<inputs, grid, open, processor, pi, var_name, ops, oi, outfiles, log, ret>>

\* ds = xr.open_dataset(...); datasets.append(ds).  The files of a folder
\* share their grid, which the first file read shows.
LoadOk ==
  /\ pc = "load"
  /\ fi <= Len(nc_files)
  /\ \E vs \in VarSets, g \in Grids :
       /\ grid # NoGrid => g = grid
       /\ grid' = g
       /\ datasets' = Append(datasets, [ds |-> FileDataset(g, vs)])
  /\ open' = open + 1
  /\ fi' = fi + 1
  /\ UNCHANGED <<pc, inputs, walk, folder, nc_files, processor, pi, var_name, ops,
                 oi, outdirs, outfiles, log, entered, ret>>

\* xr.open_dataset raises: print(f"Error loading {nc_file}: {e}"); continue
LoadFail ==
  /\ pc = "load"
  /\ fi <= Len(nc_files)
  /\ LogLine("Error loading", <<nc_files[fi].stem>>)
  /\ fi' = fi + 1
  /\ UNCHANGED <<pc, inputs, walk, folder, nc_files, grid, datasets, open, processor, pi,
                 var_name, ops, oi, outdirs, outfiles, entered, ret>>

Loaded == pc = "load" /\ fi > Len(nc_files)
DatasetsOf(dss) == [i \in DOMAIN dss |-> dss[i].ds]

\* what `datasets` is still read for once ds is bound: the handles to close
Handle == [ds |-> << >>]

\* processor = CopernicusProcessor(ds, epsg, var_map), then the config loop
StartPlan(ds) ==
  /\ processor' = Processor(ds, epsg, var_map)
  /\ datasets' = [i \in DOMAIN datasets |-> Handle]
  /\ pi' = 1
  /\ pc' = "plan"
  /\ UNCHANGED <<inputs, walk, folder, nc_files, fi, grid, open, var_name, ops,
                 oi, outdirs, outfiles, log, entered, ret>>

\* len(datasets) > 1 and xr.merge succeeds
MergeOk ==
  /\ Loaded
  /\ Len(datasets) > 1
  /\ StartPlan(Merge(DatasetsOf(datasets)))

\* len(datasets) > 1 and xr.merge raises: print, continue
MergeFail ==
  /\ Loaded
  /\ Len(datasets) > 1
  /\ LogLine("Error merging datasets", << >>)
  /\ NextFolder
  /\ UNCHANGED <<inputs, walk, open, outdirs, outfiles, entered, ret>>

\* else: ds = datasets[0], with one dataset loaded
SingleDataset ==
  /\ Loaded
  /\ Len(datasets) = 1
  /\ StartPlan(datasets[1].ds)

\* else: ds = datasets[0], with none loaded: IndexError leaves the function
NoDataset ==
  /\ Loaded
  /\ Len(datasets) = 0
  /\ pc' = "aborted"
  /\ UNCHANGED <<inputs, walk, batch, open, outdirs, outfiles, log, entered, ret>>

\* u, v = operations['components']; ds = processor.speed_from_components(u, v)
SpeedOfEntry(value, dataset) ==
  IF ~value.isdict THEN Raise("TypeError")
  ELSE IF "components" \notin DOMAIN value.items THEN Raise("KeyError")
  ELSE IF Len(value.items["components"]) # 2 THEN Raise("ValueError: unpack")
  ELSE SpeedFromComponents(dataset, value.items["components"][1],
                           value.items["components"][2])

\* operations['operations'] if isinstance(operations, dict) else operations
ReadOps(value) ==
  IF ~value.isdict THEN Ok(value.items)
  ELSE IF "operations" \in DOMAIN value.items THEN Ok(value.items["operations"])
  ELSE Raise("KeyError")

\* the key that gets the current-speed handling
IsSpeedKey(key) == key = "V"

AtEntry == pc = "plan" /\ pi <= Len(config)
\* the special handling of the entry at hand raised
SpeedFailed ==
  IsSpeedKey(config[pi].key) /\ ~SpeedOfEntry(config[pi].value, processor.dataset).ok
\* the processor's dataset once the special handling is through
DatasetAfterSpeed ==
  IF IsSpeedKey(config[pi].key)
  THEN SpeedOfEntry(config[pi].value, processor.dataset).val
  ELSE processor.dataset

\* every entry of processing_config is through: on to closing
PlanEnd ==
  /\ pc = "plan"
  /\ pi > Len(config)
  /\ pc' = "close"
  /\ UNCHANGED <<inputs, walk, batch, open, outdirs, outfiles, log, entered, ret>>

\* except Exception: print("Error calculating current speed"); continue
SpeedError ==
  /\ AtEntry
  /\ SpeedFailed
  /\ LogLine("Error calculating current speed", <<config[pi].key>>)
  /\ pi' = pi + 1
  /\ UNCHANGED <<pc, inputs, walk, folder, nc_files, fi, grid, datasets, open, processor,
                 var_name, ops, oi, outdirs, outfiles, entered, ret>>

\* operations['operations'] raises KeyError outside any try: it leaves the function
OpsKeyError ==
  /\ AtEntry
  /\ ~SpeedFailed
  /\ ~ReadOps(config[pi].value).ok
  /\ processor' = [processor EXCEPT !.dataset = DatasetAfterSpeed]
  /\ pc' = "aborted"
  /\ UNCHANGED <<inputs, walk, folder, nc_files, fi, grid, datasets, open, pi, var_name,
                 ops, oi, outdirs, outfiles, log, entered, ret>>

\* the entry's operations are read: on to `for op in ops`
PlanEntry ==
  /\ AtEntry
  /\ ~SpeedFailed
  /\ ReadOps(config[pi].value).ok
  /\ processor' = [processor EXCEPT !.dataset = DatasetAfterSpeed]
  /\ var_name' = config[pi].key
  /\ ops' = ReadOps(config[pi].value).val
  /\ oi' = 1
  /\ pc' = "ops"
  /\ UNCHANGED <<inputs, walk, folder, nc_files, fi, grid, datasets, open, pi, outdirs,
                 outfiles, log, entered, ret>>

KnownOps == {"max", "min", "range"}

\* the if / elif chain on op
Reduce(dataset, variable_name, op) ==
  CASE op = "max" -> GetMax(dataset, variable_name)
    [] op = "min" -> GetMin(dataset, variable_name)
    [] OTHER -> GetRange(dataset, variable_name)

\* mutant of VariableKey: the operation is left out of the name
VariableKeyWithoutOp(variable_name, op, cellsize_str, code) ==
  <<variable_name, variable_name, cellsize_str, code>>

\* variable_key=f"{var_name}_{op}_{cellsize_str}_{epsg}"
VariableKey(variable_name, op, cellsize_str, code) ==
  <<variable_name, op, cellsize_str, code>>

\* the try body for one known op: reduce, get_cell_size, dataarray_to_geotiff
ProcessOp(proc, variable_name, op, output_folder) ==
  LET result == Reduce(proc.dataset, variable_name, op)
  IN IF ~result.ok THEN result
     ELSE LET cellsize_str == GetCellSize(result.val)
          IN IF ~cellsize_str.ok THEN cellsize_str
             ELSE DataarrayToGeotiff(proc, result.val,
                    VariableKey(variable_name, op, cellsize_str.val, proc.epsg),
                    output_folder)

\* da.rio.to_raster(out_path): the file replaces one of the same path
WriteFile(files, f) ==
  {g \in files : ~(g.dir = f.dir /\ g.name = f.name)} \cup {f}

AtOp == pc = "ops" /\ oi <= Len(ops)

\* every op of the entry is through: the next entry
OpsEnd ==
  /\ pc = "ops"
  /\ oi > Len(ops)
  /\ pi' = pi + 1
  /\ pc' = "plan"
  /\ UNCHANGED <<inputs, walk, folder, nc_files, fi, grid, datasets, open, processor,
                 var_name, ops, oi, outdirs, outfiles, log, entered, ret>>

\* else: print(f"Unknown operation: {op}"); continue
OpUnknown ==
  /\ AtOp
  /\ ops[oi] \notin KnownOps
  /\ LogLine("Unknown operation", <<ops[oi]>>)
  /\ oi' = oi + 1
  /\ UNCHANGED <<pc, inputs, walk, folder, nc_files, fi, grid, datasets, open, processor,
                 pi, var_name, ops, outdirs, outfiles, entered, ret>>

\* except Exception: print(f"Error processing {var_name} with {op}"); continue
OpError ==
  /\ AtOp
  /\ ops[oi] \in KnownOps
  /\ ~ProcessOp(processor, var_name, ops[oi], folder).ok
  /\ LogLine("Error processing", <<var_name, ops[oi]>>)
  /\ oi' = oi + 1
  /\ UNCHANGED <<pc, inputs, walk, folder, nc_files, fi, grid, datasets, open, processor,
                 pi, var_name, ops, outdirs, outfiles, entered, ret>>

\* the raster is written: print(f"Saved {outname}")
OpSaved ==
  /\ AtOp
  /\ ops[oi] \in KnownOps
  /\ ProcessOp(processor, var_name, ops[oi], folder).ok
  /\ outfiles' = WriteFile(outfiles, ProcessOp(processor, var_name, ops[oi], folder).val)
  /\ LogLine("Saved", <<var_name, ops[oi]>>)
  /\ oi' = oi + 1
  /\ UNCHANGED <<pc, inputs, walk, folder, nc_files, fi, grid, datasets, open, processor,
                 pi, var_name, ops, outdirs, entered, ret>>

\* for ds in datasets: ds.close()
Close ==
  /\ pc = "close"
  /\ open' = open - Len(datasets)
  /\ NextFolder
  /\ UNCHANGED <<inputs, walk, outdirs, outfiles, log, entered, ret>>

Next ==
  \/ Start
  \/ WalkEnd
  \/ SkipRoot
  \/ NoNetcdf
  \/ EnterFolder
  \/ LoadOk
  \/ LoadFail
  \/ MergeOk
  \/ MergeFail
  \/ SingleDataset
  \/ NoDataset
  \/ PlanEnd
  \/ SpeedError
  \/ OpsKeyError
  \/ PlanEntry
  \/ OpsEnd
  \/ OpUnknown
  \/ OpError
  \/ OpSaved
  \/ Close

\* batch_process_netcdfs(input_root, output_root, epsg, processing_config, var_map)
Spec == Init /\ [][Next]_vars

(***************************************************************************)
(* The processor's methods called directly, on one processor.              *)
(***************************************************************************)
orchestrator == <<tree, config, walk, folder, nc_files, fi, grid, datasets, open, pi,
                  var_name, ops, oi, outdirs, log, entered>>

\* a processor made by the caller, nothing of the orchestrator running
InitProcessor(proc) ==
  /\ pc = "api"
  /\ processor = proc
  /\ epsg = proc.epsg
  /\ var_map = proc.var_map
  /\ tree = {}
  /\ config = << >>
  /\ walk = << >>
  /\ folder = Root
  /\ nc_files = << >>
  /\ fi = 0
  /\ grid = NoGrid
  /\ datasets = << >>
  /\ pi = 0
  /\ var_name = ""
  /\ ops = << >>
  /\ oi = 0
  /\ open = 0
  /\ outdirs = {Root}
  /\ outfiles = {}
  /\ log = << >>
  /\ entered = {}
  /\ ret = NoCall

\* ---- dataarray_to_geotiff ----
DimNames == {"time", "depth", "x", "lon", "longitude", "y", "lat", "latitude"}
CRSs == {NoCRS, BadCRS, EPSG(3857), EPSG(4326)}
\* 0 is no EPSG code
ExportEPSGs == {4326, 3857, 0}
ExportKeys == {<<"thetao">>, VariableKey("thetao", "max", <<0, 83>>, 4326)}

\* an array of `n` time samples (one row when it has no time dimension)
ExportArray(dims, crs, n) ==
  [dims |-> dims,
   xs |-> IF dims \cap Range(XCandidates) # {} THEN <<0, 833>> ELSE << >>,
   crs |-> crs,
   years |-> IF "time" \in dims THEN [i \in 1..n |-> 2000] ELSE << >>,
   data |-> [i \in 1..(IF "time" \in dims THEN n ELSE 1) |-> <<0>>]]
ExportArrays ==
  {ExportArray(dims, crs, n) : dims \in SUBSET DimNames, crs \in CRSs, n \in 1..2}

InitExport ==
  \E code \in ExportEPSGs, vm \in {DefaultVarMap, EmptyVarMap} :
    InitProcessor(Processor(<< >>, code, vm))

\* processor.dataarray_to_geotiff(da, variable_key, out_dir)
CallExport ==
  /\ pc = "api"
  /\ \E da \in ExportArrays, key \in ExportKeys :
       LET res == DataarrayToGeotiff(processor, da, key, Root)
       IN /\ ret' = [fn |-> "dataarray_to_geotiff", da |-> da, key |-> key, res |-> res]
          /\ outfiles' = IF res.ok THEN WriteFile(outfiles, res.val) ELSE outfiles
  /\ pc' = "returned"
  /\ UNCHANGED <<orchestrator, epsg, var_map, processor>>

NextExport == CallExport
SpecExport == InitExport /\ [][NextExport]_vars

\* ---- get_max, get_min, get_range ----
Years == {2000, 2001}
\* time coordinates: 1..MaxSamples samples in time order
YearSeqs ==
  UNION {{ys \in [1..n -> Years] : \A i \in 1..(n - 1) : ys[i] <= ys[i + 1]} :
         n \in 1..MaxSamples}
\* a (time, lat, lon) array of two cells: the first takes the values vs, the
\* second their mirror image
SeriesArray(ys, vs) ==
  [dims |-> {"time", "lat", "lon"}, xs |-> <<0, 833>>, crs |-> NoCRS, years |-> ys,
   data |-> [t \in DOMAIN ys |-> <<vs[t], MaxVal - vs[t]>>]]
SeriesArrays ==
  UNION {{SeriesArray(ys, vs) : vs \in [DOMAIN ys -> 0..MaxVal]} : ys \in YearSeqs}

InitRange ==
  \E da \in SeriesArrays :
    InitProcessor(Processor([v \in {"thetao"} |-> da], 4326, DefaultVarMap))

ReducerNames == {"thetao", "so"}

\* processor.get_max(variable_name)
CallGetMax ==
  /\ pc = "api"
  /\ \E name \in ReducerNames :
       ret' = [fn |-> "get_max", name |-> name, res |-> GetMax(processor.dataset, name)]
  /\ UNCHANGED <<orchestrator, pc, epsg, var_map, processor, outfiles>>

\* processor.get_min(variable_name)
CallGetMin ==
  /\ pc = "api"
  /\ \E name \in ReducerNames :
       ret' = [fn |-> "get_min", name |-> name, res |-> GetMin(processor.dataset, name)]
  /\ UNCHANGED <<orchestrator, pc, epsg, var_map, processor, outfiles>>

\* processor.get_range(variable_name)
CallGetRange ==
  /\ pc = "api"
  /\ \E name \in ReducerNames :
       ret' = [fn |-> "get_range", name |-> name, res |-> GetRange(processor.dataset, name)]
  /\ UNCHANGED <<orchestrator, pc, epsg, var_map, processor, outfiles>>

NextRange ==
  \/ CallGetMax
  \/ CallGetMin
  \/ CallGetRange
SpecRange == InitRange /\ [][NextRange]_vars

\* ---- speed_from_components ----
\* the dimensions a component may have: variables of one dataset share the
\* coordinates of the dimensions they have in common, not the dimensions
ComponentDims ==
  { {"time", "lat", "lon"}, {"time", "depth", "lat", "lon"}, {"lat", "lon"} }
SpeedSamples == 2
\* a component of speed `a[t]` at sample t, in every cell
ComponentArray(dims, a) ==
  [dims |-> dims, xs |-> <<0, 833>>, crs |-> NoCRS,
   years |-> IF "time" \in dims THEN [t \in 1..SpeedSamples |-> 2000] ELSE << >>,
   data |-> [t \in 1..(IF "time" \in dims THEN SpeedSamples ELSE 1) |-> <<a[t], a[t]>>]]
ComponentArrays(values) ==
  {ComponentArray(dims, a) : dims \in ComponentDims, a \in [1..SpeedSamples -> values]}
\* datasets holding uo, vo, both or neither, and possibly a V of their own,
\* beside thetao
SpeedDatasets ==
  {[v \in present \cup {"thetao"} |->
      CASE v = "uo" -> u
        [] v = "vo" -> w
        [] OTHER -> ComponentArray({"time", "lat", "lon"}, [t \in 1..SpeedSamples |-> t])] :
     present \in SUBSET {"uo", "vo", "V"},
     u \in ComponentArrays({0, 3}), w \in ComponentArrays({0, 4})}

InitSpeed ==
  \E dataset \in SpeedDatasets :
    InitProcessor(Processor(dataset, 4326, DefaultVarMap))

\* processor.speed_from_components(u_component, v_component)
CallSpeed ==
  /\ pc = "api"
  /\ \E u \in {"uo", "vo"}, v \in {"uo", "vo"} :
       LET res == SpeedFromComponents(processor.dataset, u, v)
       IN /\ ret' = [fn |-> "speed_from_components", u |-> u, v |-> v,
                     before |-> processor.dataset, res |-> res]
          /\ processor' = IF res.ok THEN [processor EXCEPT !.dataset = res.val]
                          ELSE processor
  /\ pc' = "speed"
  /\ UNCHANGED <<orchestrator, epsg, var_map, outfiles>>

\* a reducer called on 'V' or on an input variable, after speed_from_components
\* or without it
CallReducer ==
  /\ pc \in {"api", "speed"}
  /\ \E name \in {"V", "thetao"}, op \in KnownOps :
       ret' = [fn |-> op, name |-> name, before |-> processor.dataset,
               res |-> Reduce(processor.dataset, name, op)]
  /\ pc' = "reduced"
  /\ UNCHANGED <<orchestrator, epsg, var_map, processor, outfiles>>

NextSpeed ==
  \/ CallSpeed
  \/ CallReducer
SpecSpeed == InitSpeed /\ [][NextSpeed]_vars

(***************************************************************************)
(* Properties of batch_process_netcdfs, checked under Spec.                *)
(***************************************************************************)
\* every .nc file of the folder at hand was tried and none loaded
ZeroLoaded == nc_files # << >> /\ fi > Len(nc_files) /\ datasets = << >>

\* C1: a folder whose .nc files all fail to load is fatal to that batch
\* only: the run is never aborted with such a batch at hand (it would go on
\* to the remaining folders).
C1_ZeroLoadedBatchDoesNotAbort == ZeroLoaded => pc # "aborted"

\* C2: no failure of a processing_config entry propagates out of the
\* function: the run is never aborted while an entry is at hand, so every
\* later entry is still processed.
C2_NoPlanEntryFailureEscapes == pc = "aborted" => pi = 0

\* C3: every dataset handle opened for a batch is closed by the time the
\* orchestrator moves on to the next folder or returns.
C3_HandlesClosedBetweenBatches == pc \in {"walk", "done"} => open = 0

\* the operations of entry i, for an entry that lists any
OpsOf(i) ==
  IF ~config[i].value.isdict THEN config[i].value.items
  ELSE IF "operations" \in DOMAIN config[i].value.items
       THEN config[i].value.items["operations"]
       ELSE << >>

\* the (entry, operation) positions of the plan
Positions == UNION {{<<i, j>> : j \in DOMAIN OpsOf(i)} : i \in DOMAIN config}
\* the positions the batch at hand has been through: an entry is gone
\* through unless its current speed could not be computed
Attempted ==
  {ij \in Positions :
     /\ \/ ij[1] < pi
        \/ ij[1] = pi /\ pc = "ops" /\ ij[2] < oi
     /\ config[ij[1]].key = "V" => "V" \in DOMAIN processor.dataset}

\* the grid of the batch at hand has an x-like and a y-like dimension
SpatialGrid ==
  /\ grid.dims \cap {"x", "lon", "longitude"} # {}
  /\ grid.dims \cap {"y", "lat", "latitude"} # {}

\* the grid of the batch at hand can be labelled and exported
ExportableGrid == SpatialGrid /\ Len(grid.xs) >= 2

\* every entry of the plan is a list of reductions
DirectPlan ==
  \A i \in DOMAIN config :
     /\ ~config[i].value.isdict
     /\ \A j \in DOMAIN config[i].value.items :
          config[i].value.items[j] \in {"max", "min", "range"}

\* position ij asks for a raster the dataset at hand can give
Producible(ij) ==
  /\ OpsOf(ij[1])[ij[2]] \in {"max", "min", "range"}
  /\ config[ij[1]].key \in DOMAIN processor.dataset
  /\ ExportableGrid

\* the name of the raster of position ij: variable, operation, cell size, EPSG
NameOf(ij) ==
  <<config[ij[1]].key, OpsOf(ij[1])[ij[2]],
    FormatResolution(Abs(grid.xs[2] - grid.xs[1])), epsg>>

\* the rasters written under the output folder of the batch at hand
BatchFiles == {f \in outfiles : f.dir = folder}

InPlan == pc \in {"plan", "ops", "close"}
\* some, but not all, of several .nc files loaded
PartialLoad == Len(nc_files) > 1 /\ Len(datasets) >= 1 /\ Len(datasets) < Len(nc_files)

\* C4, as stated: with some but not all files loaded, a raster is produced
\* for every operation of every plan entry (of a plan of reductions, on a
\* grid that can be exported).
C4_RasterForEveryPlanEntry ==
  (pc = "close" /\ PartialLoad /\ DirectPlan /\ ExportableGrid) =>
     \A i \in DOMAIN config : \A j \in DOMAIN OpsOf(i) :
        \E f \in BatchFiles : f.name[1] = config[i].key /\ f.name[2] = OpsOf(i)[j]

\* the file whose load error was just printed is not among the datasets
FailedFileExcluded ==
  (pc = "load" /\ fi' = fi + 1 /\ log' = <<"Error loading", folder, <<nc_files[fi].stem>> >>)
     => datasets' = datasets

\* the dataset the processor is made with holds exactly the variables of the
\* datasets that loaded, each as one of them holds it
WorkingDatasetIsMerge ==
  (pc = "load" /\ pc' = "plan") =>
     /\ DOMAIN processor'.dataset = UNION {DOMAIN datasets[i].ds : i \in DOMAIN datasets}
     /\ \A v \in DOMAIN processor'.dataset :
          \E i \in DOMAIN datasets :
             v \in DOMAIN datasets[i].ds /\ processor'.dataset[v] = datasets[i].ds[v]

\* with some files failed the batch goes on, and every position it has been
\* through that the merged dataset can serve has its raster
PartialLoadServed ==
  (InPlan /\ PartialLoad) =>
     \A ij \in Attempted : Producible(ij) => \E f \in BatchFiles : f.name = NameOf(ij)

\* C4, amended: with some but not all of several files loaded, the failed
\* files are excluded, the working dataset is exactly the merge of the files
\* that loaded, and a raster is written for every attempted operation whose
\* variable that merge holds (on a grid that can be exported).
C4_PartialLoadUsesLoadedFiles ==
  /\ [][FailedFileExcluded /\ WorkingDatasetIsMerge]_vars
  /\ []PartialLoadServed

\* two of three files loaded and merged, and rasters were written
C4_Witness ==
  /\ pc = "close"
  /\ Len(nc_files) = 3
  /\ Len(datasets) = 2
  /\ Cardinality(BatchFiles) = 3

\* every variable of the plan is in the dataset of the batch at hand
HoldsPlanVariables == \A i \in DOMAIN config : config[i].key \in DOMAIN processor.dataset

\* C5, as stated: for a batch whose dataset (on a grid with x and y) holds
\* every variable of the plan, exactly one raster per (variable, operation)
\* pair of the plan is written, named by that pair, and nothing else.
C5_OneRasterPerPlanPair ==
  (pc = "close" /\ HoldsPlanVariables /\ SpatialGrid) =>
     /\ {<<f.name[1], f.name[2]>> : f \in BatchFiles}
          = {<<config[ij[1]].key, OpsOf(ij[1])[ij[2]]>> : ij \in Positions}
     /\ Cardinality(BatchFiles) = Cardinality(Positions)

\* C5, amended: the rasters of a batch are exactly one per attempted
\* (variable, operation) pair whose operation is max, min or range, whose
\* variable the dataset holds and whose grid has x- and y-like dimensions
\* with at least two x coordinates, each named
\* {variable}_{operation}_{cellsize}_{epsg}.tif, and nothing else.
C5_OneRasterPerProduciblePair ==
  processor # NoProcessor =>
     /\ {f.name : f \in BatchFiles} = {NameOf(ij) : ij \in {a \in Attempted : Producible(a)}}
     /\ Cardinality(BatchFiles) = Cardinality({a \in Attempted : Producible(a)})

\* the plan {thetao: [max, range], so: [min]} on a dataset holding both: the
\* three rasters thetao_max, thetao_range and so_min are there at the end
C5_Witness ==
  /\ pc = "close"
  /\ HoldsPlanVariables
  /\ {<<f.name[1], f.name[2]>> : f \in BatchFiles}
       = {<<"thetao", "max">>, <<"thetao", "range">>, <<"so", "min">>}
  /\ Cardinality(BatchFiles) = 3

\* C10: once the function is over, every folder below the input root has
\* its folder under the output root.
C10_EveryFolderMirrored == pc \in {"done", "aborted"} => tree \subseteq outdirs

\* entry i has the derived shape {components: [a, b], operations: [...]}
DerivedEntry(i) ==
  /\ config[i].value.isdict
  /\ {"components", "operations"} \subseteq DOMAIN config[i].value.items

\* C11: an entry of the derived shape, whatever its key ('current' in the
\* docstring), gets the current speed computed from its components and one
\* raster per listed operation: at the end of a batch whose dataset holds
\* both components on a grid that can be exported, every listed max, min or
\* range of every derived entry has its raster.
C11_DerivedEntryYieldsRasters ==
  (pc = "close" /\ ExportableGrid) =>
     \A i \in DOMAIN config :
        ( /\ DerivedEntry(i)
          /\ Range(config[i].value.items["components"]) \subseteq DOMAIN processor.dataset )
        => /\ "V" \in DOMAIN processor.dataset
           /\ \A j \in DOMAIN OpsOf(i) :
                OpsOf(i)[j] \in KnownOps =>
                   \E f \in BatchFiles : f.name[1] = config[i].key /\ f.name[2] = OpsOf(i)[j]

(***************************************************************************)
(* Properties of dataarray_to_geotiff, checked under SpecExport.           *)
(***************************************************************************)
Exported == ret.fn = "dataarray_to_geotiff"

\* C6: the configured EPSG is stamped only on an array without a CRS; an
\* array that has one is written with it, whatever the configured EPSG.
C6_ExistingCRSIsKept ==
  (Exported /\ ret.res.ok) =>
     /\ ret.res.val \in outfiles
     /\ ret.da.crs \in {EPSG(3857), EPSG(4326)} => ret.res.val.crs = ret.da.crs
     /\ ret.da.crs = NoCRS => ret.res.val.crs = EPSG(processor.epsg)
     /\ ret.res.val.crs # ret.da.crs => ret.da.crs \in {NoCRS, BadCRS}

\* an array tagged EPSG:3857, a processor configured with 4326: written as 3857
C6_Witness ==
  /\ Exported
  /\ ret.res.ok
  /\ ret.da.crs = EPSG(3857)
  /\ processor.epsg = 4326
  /\ ret.res.val.crs = EPSG(3857)

\* d is the first name of cands that is among dims
FirstMatch(cands, dims, d) ==
  \E i \in DOMAIN cands :
     /\ cands[i] = d
     /\ d \in dims
     /\ \A j \in 1..(i - 1) : cands[j] \notin dims

\* C7: the x dimension is the first of (x, lon, longitude) and the y
\* dimension the first of (y, lat, latitude) among the array's dimensions,
\* and the export raises when either list has no match: {time, depth}
\* raises, {time, lon, lat} resolves to (lon, lat).
C7_FirstCandidateOrError ==
  (Exported /\ ("time" \in ret.da.dims => Len(ret.da.data) = 1)) =>
     LET dims == ret.da.dims \ {"time"}
         none == \/ dims \cap {"x", "lon", "longitude"} = {}
                 \/ dims \cap {"y", "lat", "latitude"} = {}
     IN /\ none => ~ret.res.ok /\ ret.res.err = "ValueError: no spatial dimensions"
        /\ ~none /\ ~ret.res.ok => ret.res.err = "CRSError"
        /\ ret.res.ok =>
             /\ FirstMatch(<<"x", "lon", "longitude">>, dims, ret.res.val.x_dim)
             /\ FirstMatch(<<"y", "lat", "latitude">>, dims, ret.res.val.y_dim)
        /\ ret.da.dims = {"time", "depth"} => ~ret.res.ok
        /\ ret.da.dims = {"time", "lon", "lat"} /\ ret.res.ok =>
             <<ret.res.val.x_dim, ret.res.val.y_dim>> = <<"lon", "lat">>

\* an array of dimensions {time, lon, lat} was exported with lon as x, lat as y
C7_Witness ==
  /\ Exported
  /\ ret.da.dims = {"time", "lon", "lat"}
  /\ ret.res.ok
  /\ ret.res.val.x_dim = "lon"
  /\ ret.res.val.y_dim = "lat"

(***************************************************************************)
(* Properties of the reducers, checked under SpecRange.                    *)
(***************************************************************************)
\* the values of cell c of da in calendar year y
ValuesIn(da, y, c) == {da.data[t][c] : t \in {u \in DOMAIN da.years : da.years[u] = y}}
Spread(S) == LET hi == CHOOSE m \in S : \A z \in S : z <= m
                 lo == CHOOSE m \in S : \A z \in S : m <= z
             IN IF hi >= lo THEN hi - lo ELSE lo - hi
\* the sum over the calendar years S of the spread of cell c within the year
RECURSIVE SumOfSpreads(_, _, _)
SumOfSpreads(da, S, c) ==
  IF S = {} THEN 0
  ELSE LET y == CHOOSE z \in S : TRUE
       IN Spread(ValuesIn(da, y, c)) + SumOfSpreads(da, S \ {y}, c)

\* C8: get_range is, per cell, the mean over the calendar years present of
\* |max - min| within the year; over exactly one calendar year it equals
\* |get_max - get_min|.
C8_MeanOfYearlyRanges ==
  (ret.fn = "get_range" /\ ret.res.ok) =>
     LET da == processor.dataset[ret.name]
         years == {da.years[t] : t \in DOMAIN da.years}
         hi == GetMax(processor.dataset, ret.name).val.data[1]
         lo == GetMin(processor.dataset, ret.name).val.data[1]
     IN \A c \in DOMAIN ret.res.val.data[1] :
          LET r == ret.res.val.data[1][c]
          IN /\ r.den = Cardinality(years)
             /\ r.num = SumOfSpreads(da, years, c)
             /\ Cardinality(years) = 1 =>
                  r.den = 1 /\ r.num = Spread({hi[c], lo[c]})

\* get_range over two calendar years whose mean yearly range is below the
\* range over all the samples
C8_Witness ==
  /\ ret.fn = "get_range"
  /\ ret.res.ok
  /\ Cardinality({processor.dataset[ret.name].years[t] :
                    t \in DOMAIN processor.dataset[ret.name].years}) = 2
  /\ ret.res.val.data[1][1].num > 0
  /\ ret.res.val.data[1][1].num <
       2 * Spread({processor.dataset[ret.name].data[t][1] :
                      t \in DOMAIN processor.dataset[ret.name].data})

(***************************************************************************)
(* Properties of speed_from_components, checked under SpecSpeed.           *)
(***************************************************************************)
\* C9: speed_from_components raises when its two components differ in shape
\* or coordinate labels, and then no derived variable is produced.
C9_MismatchedComponentsRaise ==
  ( /\ ret.fn = "speed_from_components"
    /\ {ret.u, ret.v} \subseteq DOMAIN ret.before
    /\ ret.before[ret.u].dims # ret.before[ret.v].dims )
  => ~ret.res.ok /\ "V" \notin DOMAIN processor.dataset

\* the dataset the processor was made with, seen from before a call
InputDataset == IF pc = "speed" THEN ret.before ELSE processor.dataset

\* after speed_from_components succeeded the dataset holds V beside every
\* other variable, unchanged; V has the magnitude of the two components
\* (to the whole number below) wherever they have the same dimensions; a
\* failed call changes nothing
SpeedAddsOnlyV ==
  ret.fn = "speed_from_components" =>
     IF ret.res.ok
     THEN /\ ret.res.val = processor.dataset
          /\ DOMAIN processor.dataset = DOMAIN ret.before \cup {"V"}
          /\ \A k \in DOMAIN ret.before \ {"V"} : processor.dataset[k] = ret.before[k]
          /\ ret.before[ret.u].dims = ret.before[ret.v].dims =>
               LET V == processor.dataset["V"]
                   a == ret.before[ret.u]
                   b == ret.before[ret.v]
               IN /\ V.dims = a.dims
                  /\ DOMAIN V.data = DOMAIN a.data
                  /\ \A t \in DOMAIN V.data : \A c \in DOMAIN V.data[t] :
                       LET sq == a.data[t][c] * a.data[t][c] + b.data[t][c] * b.data[t][c]
                       IN /\ V.data[t][c] >= 0
                          /\ V.data[t][c] * V.data[t][c] <= sq
                          /\ sq < (V.data[t][c] + 1) * (V.data[t][c] + 1)
     ELSE processor.dataset = ret.before

\* a reducer resolves V exactly as it resolves any variable of the dataset:
\* not found when the dataset has none, otherwise reduced over its time axis
ReducerResolvesV ==
  (ret.fn \in KnownOps /\ ret.name = "V") =>
     /\ "V" \notin DOMAIN ret.before => ret.res = Raise("ValueError: variable not found")
     /\ "V" \in DOMAIN ret.before =>
          LET V == ret.before["V"]
          IN /\ ret.res.ok <=> "time" \in V.dims
             /\ (ret.res.ok /\ ret.fn \in {"max", "min"}) =>
                  \A c \in DOMAIN ret.res.val.data[1] :
                     /\ \E t \in DOMAIN V.data : ret.res.val.data[1][c] = V.data[t][c]
                     /\ \A t \in DOMAIN V.data :
                          IF ret.fn = "max" THEN V.data[t][c] <= ret.res.val.data[1][c]
                          ELSE ret.res.val.data[1][c] <= V.data[t][c]

\* a reducer called on V finds it exactly when speed_from_components has
\* succeeded before the call or V was an input variable
VFoundOnlyAfterSpeed ==
  (ret'.fn \in KnownOps /\ ret'.name = "V") =>
     ( ("V" \in DOMAIN ret'.before)
         <=> \/ "V" \in DOMAIN InputDataset
             \/ pc = "speed" /\ ret.res.ok )

\* C12: after speed_from_components succeeds the dataset holds the derived
\* variable under the name V, every other variable unchanged, and get_max,
\* get_min and get_range resolve V like an original variable; before the
\* call, or after a failed one, V is not resolvable unless it was an input.
C12_DerivedVariableIsV ==
  /\ [](SpeedAddsOnlyV /\ ReducerResolvesV)
  /\ [][VFoundOnlyAfterSpeed]_vars

\* get_max on V after the speed was computed from uo = 3 and vo = 4
C12_Witness ==
  /\ pc = "reduced"
  /\ ret.fn = "max"
  /\ ret.name = "V"
  /\ ret.res.ok
  /\ {"uo", "vo", "thetao"} \subseteq DOMAIN ret.before
  /\ ret.res.val.data[1][1] = 5

(***************************************************************************)
(* The cell size in the orchestrator's operation loop, checked under Spec.  *)
(***************************************************************************)
\* the reduction of the operation at hand
ReducedResult == Reduce(processor.dataset, var_name, ops[oi])
\* da has an x-like dimension with two coordinates or more
HasCellSize(da) ==
  /\ da.dims \cap {"x", "lon", "longitude"} # {}
  /\ Len(da.xs) >= 2

\* a raster is written only for an operation whose reduced result has a
\* cell size
WrittenOnlyWithCellSize ==
  (pc = "ops" /\ outfiles' # outfiles) =>
     /\ ops[oi] \in KnownOps
     /\ ReducedResult.ok
     /\ HasCellSize(ReducedResult.val)

\* an operation whose reduced result has no cell size writes nothing, has
\* its error printed, and the loop goes on to the next operation
NoCellSizeIsSkipped ==
  (pc = "ops" /\ oi' # oi /\ ops[oi] \in KnownOps /\ ReducedResult.ok
     /\ ~HasCellSize(ReducedResult.val)) =>
     /\ outfiles' = outfiles
     /\ log' = <<"Error processing", folder, <<var_name, ops[oi]>> >>
     /\ pc' = "ops"
     /\ oi' = oi + 1
     /\ ops' = ops

\* C13: a raster is written for a (variable, operation) pair only if
\* get_cell_size succeeds on the reduced result; with fewer than 2
\* x coordinates, or no x-like dimension, no file is written for the pair,
\* the error is caught and the next operation is processed.
C13_NoCellSizeNoRaster == [][WrittenOnlyWithCellSize /\ NoCellSizeIsSkipped]_vars

\* on a lon/lat grid of a single lon coordinate the reduction of a variable
\* the dataset holds was skipped with its error printed, and nothing written
C13_Witness ==
  /\ pc = "ops"
  /\ oi > 1
  /\ var_name \in DOMAIN processor.dataset
  /\ SpatialGrid
  /\ Len(grid.xs) = 1
  /\ log = <<"Error processing", folder, <<var_name, ops[oi - 1]>> >>
  /\ BatchFiles = {}

====
